---- MODULE Spec2Model ----
(***************************************************************************)
(* Job ticketing of the clustering / outlier-detection service:            *)
(* request handlers (POST /{algorithm}/file, POST /{algorithm}/path), the  *)
(* worker pool running enqueue(), the completion callback                   *)
(* executor_callback(), the tickets table, the output directory and the    *)
(* lookups GET /status/{ticket} and GET /resource/{ticket}.                 *)
(***************************************************************************)
EXTENDS Integers, Sequences, FiniteSets, Bags, TLC

\* ------------------------------------------------------------------ bounds
MaxReqs == 2        \* number of POST requests in a behaviour
NumWorkers == 2     \* threads of the executor's pool

Reqs == 1..MaxReqs

\* ------------------------------------------------------- values and paths
\* SQL NULL / Python None, and a present value.
Null == <<>>
Some(v) == <<v>>
IsNull(x) == x = <<>>
Val(x) == x[1]

\* A path is a sequence of components; an absolute path starts with "/".
isabs(p) == Len(p) > 0 /\ p[1] = "/"

\* os.path.join(a, b): an absolute b discards a.
join(a, b) == IF isabs(b) THEN b ELSE a \o b

\* The working directory of the process.
Cwd == <<"/", "app">>

\* os.path.abspath(p): what the file system resolves p to.
abspath(p) == IF isabs(p) THEN p ELSE Cwd \o p

\* Values the environment variable OUTPUT_DIR can hold (any non-empty
\* string passes the check at import): an absolute and a relative one.
OutputDirs == { <<"/", "srv", "out">>, <<"out">> }

\* str(uuid4()): the n-th token generated; tokens never collide.
create_ticket(n) == ToString(n)

\* The clock.  Timestamps are only recorded, never branched on, and no
\* claim needs time to pass, so every reading of a behaviour is the same.
now == 0

\* datetime.now().strftime("%y%m%d"): the date partition of a clock reading.
strftime(time) == "d" \o ToString(time)

FILE_NOT_FOUND_MESSAGE == "File not found"

JobType == {"KMEANS", "DBSCAN", "AGGLO", "ISOFOREST", "LOCALOUTLIER", "SVM"}

\* Endpoints exercised by the requests of a behaviour (all twelve handlers
\* have the same body up to the algorithm they name).
Algorithms == {"KMEANS"}

\* What a delegated computation can do on its input: return a result
\* structure, determined by the form and the data, or raise.
Outcomes == {"return", "raise"}

\* The result structure the algorithm computes from the data at src.
kmeams(src) == [labels_of |-> src]

\* str(e) of the exception the algorithm raises on the data at src.
str_e(src) == "cannot cluster"

VARIABLES
    outputDir,   \* getenv('OUTPUT_DIR')
    nextTicket,  \* number of tokens generated so far
    reqs,        \* per request: the handler's position, its ticket and its response
    queue,       \* jobs submitted to the pool and not yet picked by a worker
    jobs,        \* per submitted ticket: the job's position on its worker
    tickets,     \* the tickets table: ticket -> row
    files,       \* regular files of the file system: absolute path -> content
    accountLog,  \* the records emitted by accountLogger, a bag
    lastGet,     \* the last answer of GET /status or GET /resource
    stage,       \* one run of uncompress_file(): its input, position and file tree
    health       \* what GET /_health depends on, and its last answer

vars == <<outputDir, nextTicket, reqs, queue, jobs, tickets, files, accountLog, lastGet, stage, health>>


\* ------------------------------------------------------- the tickets table
\* Column defaults of a freshly inserted row: status 0 (pending), the clock
\* as requested_time, everything else NULL.
RowDefaults(time) ==
    [requested_time |-> time, filesize |-> Null, status |-> 0, success |-> Null,
     result |-> Null, execution_time |-> Null, comment |-> Null]

\* INSERT INTO tickets (ticket, filesize) VALUES(?, ?)
INSERT(tk, ticket, filesize, time) ==
    (ticket :> [RowDefaults(time) EXCEPT !.filesize = Some(filesize)]) @@ tk

\* Variant of UPDATE without the WHERE clause: every row is overwritten.
UPDATE_AllRows(tk, ticket, filepath, success, execution_time, comment) ==
    [t \in DOMAIN tk |->
        [tk[t] EXCEPT !.result = filepath, !.success = Some(success), !.status = 1,
                      !.execution_time = Some(execution_time), !.comment = comment]]

\* Variant of UPDATE that leaves the success column out of the SET list.
UPDATE_NoSuccess(tk, ticket, filepath, success, execution_time, comment) ==
    [t \in DOMAIN tk |->
        IF t = ticket
        THEN [tk[t] EXCEPT !.result = filepath, !.status = 1,
                           !.execution_time = Some(execution_time), !.comment = comment]
        ELSE tk[t]]

\* Variant of UPDATE that leaves the result column out of the SET list.
UPDATE_NoResult(tk, ticket, filepath, success, execution_time, comment) ==
    [t \in DOMAIN tk |->
        IF t = ticket
        THEN [tk[t] EXCEPT !.success = Some(success), !.status = 1,
                           !.execution_time = Some(execution_time), !.comment = comment]
        ELSE tk[t]]

\* UPDATE tickets SET result=?, success=?, status=1, execution_time=?,
\* comment=? WHERE ticket=?  (one statement, committed at once)
UPDATE(tk, ticket, filepath, success, execution_time, comment) ==
    [t \in DOMAIN tk |->
        IF t = ticket
        THEN [tk[t] EXCEPT !.result = filepath, !.success = Some(success), !.status = 1,
                           !.execution_time = Some(execution_time), !.comment = comment]
        ELSE tk[t]]

\* ------------------------------------------------------------ the job
\* The tuple enqueue() returns: five fields when the computation returned,
\* four when it raised.
enqueue_return(ticket, src_path, job_type, o) ==
    IF o = "raise"
    THEN <<ticket, Null, 0, Some(str_e(src_path))>>
    ELSE <<ticket, Some(kmeams(src_path)), job_type, 1, Null>>

\* ticket, result, job_type, success, comment = future.result()
\* succeeds only on a tuple of exactly five fields.
CanUnpack(future) == Len(future) = 5

\* Variant of artifact_path that leaves the ticket out of the path.
artifact_path_NoTicket(od, time, ticket) ==
    join(join(od, <<strftime(time)>>), <<"result.json">>)

\* The file executor_callback() writes the result to.
artifact_path(od, time, ticket) ==
    join(join(od, join(<<strftime(time)>>, <<ticket>>)), <<"result.json">>)

\* The value executor_callback() stores in the result column.
stored_result(od, time, ticket) == artifact_path(od, time, ticket)

\* execution_time = round((now - requested_time).total_seconds(), 3)
elapsed(time, requested_time) == time - requested_time

\* ------------------------------------------------------------ lookups
NoAnswer ==
    [endpoint |-> "none", ticket |-> "", code |-> 0, completed |-> Null, success |-> Null,
     requested |-> Null, execution_time |-> Null, comment |-> Null, content |-> Null]

\* Variant of status that treats a row still pending as not found.
status_PendingIs404(tk, ticket) ==
    IF ticket \in DOMAIN tk /\ tk[ticket].status # 0
    THEN LET results == tk[ticket] IN
         [NoAnswer EXCEPT !.endpoint = "status", !.ticket = ticket, !.code = 200,
                          !.completed = Some(results.status # 0),
                          !.success = IF ~IsNull(results.success)
                                      THEN Some(Val(results.success) # 0) ELSE Null,
                          !.requested = Some(results.requested_time),
                          !.execution_time = results.execution_time,
                          !.comment = results.comment]
    ELSE [NoAnswer EXCEPT !.endpoint = "status", !.ticket = ticket, !.code = 404]

\* GET /status/<ticket>
status(tk, ticket) ==
    IF ticket \in DOMAIN tk
    THEN LET results == tk[ticket] IN
         [NoAnswer EXCEPT !.endpoint = "status", !.ticket = ticket, !.code = 200,
                          !.completed = Some(results.status # 0),
                          !.success = IF ~IsNull(results.success)
                                      THEN Some(Val(results.success) # 0) ELSE Null,
                          !.requested = Some(results.requested_time),
                          !.execution_time = results.execution_time,
                          !.comment = results.comment]
    ELSE [NoAnswer EXCEPT !.endpoint = "status", !.ticket = ticket, !.code = 404]

\* Variant of resource that tests the file before the NULL of the column:
\* a row without a result path is answered as a missing resource.
resource_NullIs507(tk, fs, od, ticket) ==
    IF ticket \notin DOMAIN tk
    THEN [NoAnswer EXCEPT !.endpoint = "resource", !.ticket = ticket, !.code = 500]
    ELSE LET rel_path == tk[ticket].result IN
         IF IsNull(rel_path) \/ abspath(join(od, Val(rel_path))) \notin DOMAIN fs
         THEN [NoAnswer EXCEPT !.endpoint = "resource", !.ticket = ticket, !.code = 507]
         ELSE [NoAnswer EXCEPT !.endpoint = "resource", !.ticket = ticket, !.code = 200,
                               !.content = Some(fs[abspath(join(od, Val(rel_path)))])]

\* Variant of resource that answers a missing artifact as not found.
resource_Missing404(tk, fs, od, ticket) ==
    IF ticket \notin DOMAIN tk
    THEN [NoAnswer EXCEPT !.endpoint = "resource", !.ticket = ticket, !.code = 500]
    ELSE LET rel_path == tk[ticket].result IN
         IF IsNull(rel_path) \/ abspath(join(od, Val(rel_path))) \notin DOMAIN fs
         THEN [NoAnswer EXCEPT !.endpoint = "resource", !.ticket = ticket, !.code = 404]
         ELSE [NoAnswer EXCEPT !.endpoint = "resource", !.ticket = ticket, !.code = 200,
                               !.content = Some(fs[abspath(join(od, Val(rel_path)))])]

\* GET /resource/<ticket>.  fetchone() gives None for an absent row and the
\* subscript ['result'] then raises TypeError, which the framework answers
\* with 500.
resource(tk, fs, od, ticket) ==
    IF ticket \notin DOMAIN tk
    THEN [NoAnswer EXCEPT !.endpoint = "resource", !.ticket = ticket, !.code = 500]
    ELSE LET rel_path == tk[ticket].result IN
         IF IsNull(rel_path)
         THEN [NoAnswer EXCEPT !.endpoint = "resource", !.ticket = ticket, !.code = 404]
         ELSE LET file == join(od, Val(rel_path)) IN
              IF abspath(file) \notin DOMAIN fs
              THEN [NoAnswer EXCEPT !.endpoint = "resource", !.ticket = ticket, !.code = 507]
              ELSE [NoAnswer EXCEPT !.endpoint = "resource", !.ticket = ticket, !.code = 200,
                                    !.content = Some(fs[abspath(file)])]

\* ------------------------------------------------------------ state
NewReq ==
    [pc |-> "new", ticket |-> Null, code |-> 0, message |-> "", body |-> Null,
     issued |-> Null]

\* No run of uncompress_file() is under way.
StageIdle ==
    [pc |-> "idle", kind |-> "none", filter |-> "none", members |-> <<>>,
     next |-> 0, dirs |-> {}, files |-> {}, before |-> {}, written |-> {},
     result |-> Null, error |-> ""]

\* tempfile.gettempdir()
gettempdir == <<"/", "tmp">>

\* No health check has been answered.
NoHealth == [code |-> 0, status |-> "", reason |-> "", detail |-> ""]

\* A healthy environment in which /_health was never called: TEMPDIR unset,
\* the temp directory writable, the database reachable.
HealthIdle ==
    [TEMPDIR |-> Null, writable |-> {gettempdir}, db_exc |-> Null, answer |-> NoHealth]

EmptyFn == [x \in {} |-> 0]

Init ==
    /\ outputDir \in OutputDirs
    /\ nextTicket = 0
    /\ reqs = [r \in Reqs |-> NewReq]
    /\ queue = <<>>
    /\ jobs = EmptyFn
    /\ tickets = EmptyFn
    /\ files = EmptyFn
    /\ accountLog = EmptyBag
    /\ lastGet = NoAnswer
    /\ stage = StageIdle
    /\ health = HealthIdle

\* Tickets that a behaviour can generate or ask about.
AllTickets == { create_ticket(n) : n \in 1..MaxReqs }

\* The staged input of request r (the upload saved by save_to_temp(), or
\* the path the form names), as handed to the algorithm and to enqueue().
\* The ticketing never looks into the path: it is named by its request.
src_file_path(r) == <<"input", ToString(r)>>

\* stat(src_path).st_size of the staged input.
st_size(src) == Len(src)

\* Jobs that occupy a pool thread.
Busy == { t \in DOMAIN jobs : jobs[t].pc \in {"running", "finished", "cb_db", "cb_log"} }

\* ------------------------------------------------------------ requests
\* Requests are numbered in the order in which their handlers start.
CanStart(r) ==
    /\ reqs[r].pc = "new"
    /\ \A q \in Reqs : q < r => reqs[q].pc # "new"

\* Variant of PostInvalid that validates after the ticket is generated.
PostInvalid_TicketFirst(r) ==
    /\ CanStart(r)
    /\ nextTicket' = nextTicket + 1
    /\ reqs' = [reqs EXCEPT ![r] = [@ EXCEPT !.pc = "done", !.code = 400,
                                             !.message = "form.errors",
                                             !.ticket = Some(create_ticket(nextTicket + 1))]]
    /\ UNCHANGED <<outputDir, queue, jobs, tickets, files, accountLog, lastGet, stage, health>>

\* validate_form() of any of the twelve handlers: the form does not
\* validate, abort(400, form.errors).
PostInvalid(r) ==
    /\ CanStart(r)
    /\ reqs' = [reqs EXCEPT ![r] = [@ EXCEPT !.pc = "done", !.code = 400,
                                             !.message = "form.errors"]]
    /\ UNCHANGED <<outputDir, nextTicket, queue, jobs, tickets, files, accountLog, lastGet, stage, health>>

\* Variant of PostPathMissing that generates the ticket before it tests the
\* path, as the file handlers do.
PostPathMissing_TicketFirst(r) ==
    /\ CanStart(r)
    /\ nextTicket' = nextTicket + 1
    /\ reqs' = [reqs EXCEPT ![r] = [@ EXCEPT !.pc = "done", !.code = 400,
                                             !.message = FILE_NOT_FOUND_MESSAGE,
                                             !.ticket = Some(create_ticket(nextTicket + 1))]]
    /\ UNCHANGED <<outputDir, queue, jobs, tickets, files, accountLog, lastGet, stage, health>>

\* POST /<algorithm>/path with a valid form whose resource does not exist:
\* uncompress_file() or the handler's own test aborts with
\* abort(400, FILE_NOT_FOUND_MESSAGE).
PostPathMissing(r) ==
    /\ CanStart(r)
    /\ reqs' = [reqs EXCEPT ![r] = [@ EXCEPT !.pc = "done", !.code = 400,
                                             !.message = FILE_NOT_FOUND_MESSAGE]]
    /\ UNCHANGED <<outputDir, nextTicket, queue, jobs, tickets, files, accountLog, lastGet, stage, health>>

\* Variant of PostPrompt that also records the request in the tickets table.
PostPrompt_InsertsRow(r) ==
    /\ CanStart(r)
    /\ \E alg \in Algorithms, o \in Outcomes :
         LET ticket == create_ticket(nextTicket + 1) IN
         /\ nextTicket' = nextTicket + 1
         /\ tickets' = INSERT(tickets, ticket, st_size(src_file_path(r)), now)
         /\ reqs' = [reqs EXCEPT ![r] =
               [@ EXCEPT !.pc = "done", !.ticket = Some(ticket),
                         !.code = IF o = "return" THEN 200 ELSE 500,
                         !.body = IF o = "return" THEN Some(kmeams(src_file_path(r))) ELSE Null]]
    /\ UNCHANGED <<outputDir, queue, jobs, files, accountLog, lastGet, stage, health>>

\* A valid request with response == "prompt".  The file handler has
\* generated a ticket and staged the upload, the path handler has not; the
\* computation runs on the request thread; a result is answered 200, an
\* exception leaves the handler (500).
PostPrompt(r) ==
    /\ CanStart(r)
    /\ \E kind \in {"file", "path"}, alg \in Algorithms, o \in Outcomes :
         /\ nextTicket' = IF kind = "file" THEN nextTicket + 1 ELSE nextTicket
         /\ reqs' = [reqs EXCEPT ![r] =
               [@ EXCEPT !.pc = "done",
                         !.ticket = IF kind = "file"
                                    THEN Some(create_ticket(nextTicket + 1)) ELSE Null,
                         !.code = IF o = "return" THEN 200 ELSE 500,
                         !.body = IF o = "return" THEN Some(kmeams(src_file_path(r))) ELSE Null]]
    /\ UNCHANGED <<outputDir, queue, jobs, tickets, files, accountLog, lastGet, stage, health>>

\* A valid request with response == "deferred", up to and including
\* enqueue.submit(ticket, src_file_path, form=form, job_type=...).  The
\* file handler generates the ticket before staging, the path handler
\* right before submitting.
PostDeferred(r) ==
    /\ CanStart(r)
    /\ \E alg \in Algorithms :
         LET ticket == create_ticket(nextTicket + 1) IN
         /\ nextTicket' = nextTicket + 1
         /\ reqs' = [reqs EXCEPT ![r] = [@ EXCEPT !.pc = "submitted", !.ticket = Some(ticket)]]
         /\ queue' = Append(queue, ticket)
         /\ jobs' = (ticket :> [pc |-> "queued", src |-> src_file_path(r), job_type |-> alg,
                                future |-> <<>>, filepath |-> Null]) @@ jobs
    /\ UNCHANGED <<outputDir, tickets, files, accountLog, lastGet, stage, health>>

\* Variant of Respond202 that answers only when the job has run.
Respond202_WaitsForJob(r) ==
    /\ reqs[r].pc = "submitted"
    /\ jobs[Val(reqs[r].ticket)].pc \in {"done", "cb_raised"}
    /\ reqs' = [reqs EXCEPT ![r] = [@ EXCEPT !.pc = "done", !.code = 202,
                                             !.issued = reqs[r].ticket]]
    /\ UNCHANGED <<outputDir, nextTicket, queue, jobs, tickets, files, accountLog, lastGet, stage, health>>

\* make_response({"ticket": ticket, "endpoint": ..., "status": ...}, 202)
Respond202(r) ==
    /\ reqs[r].pc = "submitted"
    /\ reqs' = [reqs EXCEPT ![r] = [@ EXCEPT !.pc = "done", !.code = 202,
                                             !.issued = reqs[r].ticket]]
    /\ UNCHANGED <<outputDir, nextTicket, queue, jobs, tickets, files, accountLog, lastGet, stage, health>>

\* ------------------------------------------------------------ the pool
\* Variant of EnqueueStart that starts the job without inserting its row.
EnqueueStart_NoInsert(t) ==
    /\ queue # <<>>
    /\ Head(queue) = t
    /\ Cardinality(Busy) < NumWorkers
    /\ queue' = Tail(queue)
    /\ jobs' = [jobs EXCEPT ![t].pc = "running"]
    /\ UNCHANGED <<outputDir, nextTicket, reqs, tickets, files, accountLog, lastGet, stage, health>>

\* A free pool thread takes the oldest submitted job and runs enqueue() up
\* to the commit of the INSERT.
EnqueueStart(t) ==
    /\ queue # <<>>
    /\ Head(queue) = t
    /\ Cardinality(Busy) < NumWorkers
    /\ queue' = Tail(queue)
    /\ tickets' = INSERT(tickets, t, st_size(jobs[t].src), now)
    /\ jobs' = [jobs EXCEPT ![t].pc = "running"]
    /\ UNCHANGED <<outputDir, nextTicket, reqs, files, accountLog, lastGet, stage, health>>

\* The try block of enqueue(): the delegated computation returns or raises.
EnqueueCompute(t) ==
    /\ t \in DOMAIN jobs
    /\ jobs[t].pc = "running"
    /\ \E o \in Outcomes :
         jobs' = [jobs EXCEPT ![t].pc = "finished",
                              ![t].future = enqueue_return(t, jobs[t].src, jobs[t].job_type, o)]
    /\ UNCHANGED <<outputDir, nextTicket, reqs, queue, tickets, files, accountLog, lastGet, stage, health>>

\* Variant of CallbackPersist that records a failure in the row when the
\* output file cannot be written, before it raises.
CallbackPersist_RecordsWriteFailure(t) ==
    /\ t \in DOMAIN jobs
    /\ jobs[t].pc = "finished"
    /\ IF ~CanUnpack(jobs[t].future)
       THEN /\ jobs' = [jobs EXCEPT ![t].pc = "cb_raised"]
            /\ UNCHANGED <<files, tickets>>
       ELSE LET result == jobs[t].future[2] IN
            IF IsNull(result)
            THEN /\ jobs' = [jobs EXCEPT ![t].pc = "cb_db", ![t].filepath = Null]
                 /\ UNCHANGED <<files, tickets>>
            ELSE \E writable \in BOOLEAN :
                   IF writable
                   THEN /\ files' = (abspath(artifact_path(outputDir, now, jobs[t].future[1]))
                                        :> Val(result)) @@ files
                        /\ jobs' = [jobs EXCEPT ![t].pc = "cb_db",
                              ![t].filepath = Some(stored_result(outputDir, now, jobs[t].future[1]))]
                        /\ UNCHANGED tickets
                   ELSE /\ jobs' = [jobs EXCEPT ![t].pc = "cb_raised"]
                        /\ tickets' = UPDATE(tickets, t, Null, 0, 0, Some("cannot write"))
                        /\ UNCHANGED files
    /\ UNCHANGED <<outputDir, nextTicket, reqs, queue, accountLog, lastGet, stage, health>>

\* executor_callback(), first part: unpack the future and persist the
\* artifact.  An exception (unpacking, or open() on the output file) ends
\* the callback; the pool logs it and the thread goes on.
CallbackPersist(t) ==
    /\ t \in DOMAIN jobs
    /\ jobs[t].pc = "finished"
    /\ IF ~CanUnpack(jobs[t].future)
       THEN /\ jobs' = [jobs EXCEPT ![t].pc = "cb_raised"]
            /\ UNCHANGED files
       ELSE LET result == jobs[t].future[2] IN
            IF IsNull(result)
            THEN /\ jobs' = [jobs EXCEPT ![t].pc = "cb_db", ![t].filepath = Null]
                 /\ UNCHANGED files
            ELSE \E writable \in BOOLEAN :
                   IF writable
                   THEN /\ files' = (abspath(artifact_path(outputDir, now, jobs[t].future[1]))
                                        :> Val(result)) @@ files
                        /\ jobs' = [jobs EXCEPT ![t].pc = "cb_db",
                              ![t].filepath = Some(stored_result(outputDir, now, jobs[t].future[1]))]
                   ELSE /\ jobs' = [jobs EXCEPT ![t].pc = "cb_raised"]
                        /\ UNCHANGED files
    /\ UNCHANGED <<outputDir, nextTicket, reqs, queue, tickets, accountLog, lastGet, stage, health>>

\* executor_callback(), second part: SELECT requested_time, UPDATE, commit.
CallbackUpdate(t) ==
    /\ t \in DOMAIN jobs
    /\ jobs[t].pc = "cb_db"
    /\ LET ticket == jobs[t].future[1]
           success == jobs[t].future[4]
           comment == jobs[t].future[5]
       IN IF ticket \notin DOMAIN tickets
          THEN /\ jobs' = [jobs EXCEPT ![t].pc = "cb_raised"]
               /\ UNCHANGED tickets
          ELSE /\ tickets' = UPDATE(tickets, ticket, jobs[t].filepath, success,
                                    elapsed(now, tickets[ticket].requested_time), comment)
               /\ jobs' = [jobs EXCEPT ![t].pc = "cb_log"]
    /\ UNCHANGED <<outputDir, nextTicket, reqs, queue, files, accountLog, lastGet, stage, health>>

\* executor_callback(), last part: the accounting record.
CallbackAccount(t) ==
    /\ t \in DOMAIN jobs
    /\ jobs[t].pc = "cb_log"
    /\ LET ticket == jobs[t].future[1] IN
       accountLog' = accountLog (+) SetToBag({
            [ticket |-> ticket, success |-> jobs[t].future[4],
             execution_start |-> tickets[ticket].requested_time,
             execution_time |-> tickets[ticket].execution_time,
             comment |-> jobs[t].future[5], filesize |-> tickets[ticket].filesize]})
    /\ jobs' = [jobs EXCEPT ![t].pc = "done"]
    /\ UNCHANGED <<outputDir, nextTicket, reqs, queue, tickets, files, lastGet, stage, health>>

\* ------------------------------------------------------------ environment
GetStatus(t) ==
    /\ lastGet' = status(tickets, t)
    /\ UNCHANGED <<outputDir, nextTicket, reqs, queue, jobs, tickets, files, accountLog, stage, health>>

GetResource(t) ==
    /\ lastGet' = resource(tickets, files, outputDir, t)
    /\ UNCHANGED <<outputDir, nextTicket, reqs, queue, jobs, tickets, files, accountLog, stage, health>>

\* An artifact is removed from the output storage by something else.
ExternalDelete(p) ==
    /\ p \in DOMAIN files
    /\ files' = [q \in DOMAIN files \ {p} |-> files[q]]
    /\ UNCHANGED <<outputDir, nextTicket, reqs, queue, jobs, tickets, accountLog, lastGet, stage, health>>

Next ==
    \/ \E r \in Reqs : PostInvalid(r)
    \/ \E r \in Reqs : PostPathMissing(r)
    \/ \E r \in Reqs : PostPrompt(r)
    \/ \E r \in Reqs : PostDeferred(r)
    \/ \E r \in Reqs : Respond202(r)
    \/ \E t \in AllTickets : EnqueueStart(t)
    \/ \E t \in AllTickets : EnqueueCompute(t)
    \/ \E t \in AllTickets : CallbackPersist(t)
    \/ \E t \in AllTickets : CallbackUpdate(t)
    \/ \E t \in AllTickets : CallbackAccount(t)
    \/ \E t \in AllTickets : GetStatus(t)
    \/ \E t \in AllTickets : GetResource(t)
    \/ \E p \in DOMAIN files : ExternalDelete(p)

Spec == Init /\ [][Next]_vars

\* The pool runs every submitted job and its callback to their end, and a
\* handler that has submitted its job returns its response.
FairSpec ==
    /\ Spec
    /\ \A r \in Reqs : WF_vars(Respond202(r))
    /\ \A t \in AllTickets :
         /\ WF_vars(EnqueueStart(t))
         /\ WF_vars(EnqueueCompute(t))
         /\ WF_vars(CallbackPersist(t))
         /\ WF_vars(CallbackUpdate(t))
         /\ WF_vars(CallbackAccount(t))

\* ---------------------------------------------------------------------
\* Staging: uncompress_file() of utils.py on one input.
\* Paths are sequences of names; an absolute path starts with "/".
\* ---------------------------------------------------------------------

\* Largest number of members of an archive.
MaxMembers == 2

\* The characters a name is spelled with.
spelled(c) ==
    CASE c = "dx"   -> <<"d", "x">>
      [] c = ".h"   -> <<".", "h">>
      [] c = ".."   -> <<".", ".">>
      [] c = "arc"  -> <<"a", "r", "c">>
      [] c = "evil" -> <<"e", "v", "i", "l">>
      [] OTHER      -> <<c>>

\* entry.name.startswith('.')
startswith_dot(c) == spelled(c)[1] = "."

\* os.path.normpath of an absolute path, from the left: ".." drops the last
\* name kept so far and stays at the root.
RECURSIVE normpath_from(_, _)
normpath_from(kept, rest) ==
    IF rest = <<>> THEN kept
    ELSE IF Head(rest) = ".."
         THEN normpath_from(IF Len(kept) > 1 THEN SubSeq(kept, 1, Len(kept) - 1)
                                             ELSE kept, Tail(rest))
         ELSE IF Head(rest) \in {".", "/"}
              THEN normpath_from(kept, Tail(rest))
              ELSE normpath_from(Append(kept, Head(rest)), Tail(rest))

\* os.path.normpath(p) for an absolute p.
normpath(p) == normpath_from(<<"/">>, Tail(p))

\* The names below the root written out as a string: "/" before each name.
RECURSIVE flat(_)
flat(names) ==
    IF names = <<>> THEN <<>>
    ELSE <<"/">> \o spelled(Head(names)) \o flat(Tail(names))

\* An absolute path as the string of its characters.
chars(p) == IF Len(p) = 1 THEN <<"/">> ELSE flat(Tail(p))

\* os.path.commonprefix([s1, s2]): the longest common prefix, character by
\* character.
commonprefix(s1, s2) ==
    LET m == IF Len(s1) < Len(s2) THEN Len(s1) ELSE Len(s2)
        n == CHOOSE k \in 0..m :
                 /\ \A i \in 1..k : s1[i] = s2[i]
                 /\ k = m \/ s1[k + 1] # s2[k + 1]
    IN SubSeq(s1, 1, n)

\* is_within_directory(directory, target) of uncompress_file().
is_within_directory(directory, target) ==
    LET abs_directory == chars(normpath(abspath(directory)))
        abs_target == chars(normpath(abspath(target)))
        prefix == commonprefix(abs_directory, abs_target)
    IN prefix = abs_directory

\* os.path.dirname(p)
dirname(p) == SubSeq(p, 1, Len(p) - 1)

\* The file handed to uncompress_file() and the directory it lies in.
src_file == <<"/", "d", "arc">>
src_path == dirname(src_file)

\* What src_file can be: a tar archive, a zip archive, another regular
\* file, a directory, or nothing.
Kinds == {"tar", "zip", "plain", "dir", "missing"}

\* The extraction filter TarFile.extractall() applies when the caller names
\* none, as here: "fully_trusted" up to Python 3.13, "data" from 3.14.
TarFilters == {"fully_trusted", "data"}

\* Member names an archive can hold.
MemberNames ==
    { <<"f">>, <<"a", "f">>, <<"a", "b", "f">>, <<"b", "f">>,
      <<".h", "f">>, <<"a", ".h", "f">>,
      <<"..", "e">>, <<"..", "dx", "e">>, <<"..", "..", "evil">>,
      <<"/", "dx", "e">> }

\* The archives: up to MaxMembers members, in the order of the archive.
Archives == UNION { [1..n -> MemberNames] : n \in 1..MaxMembers }

\* The directories makedirs() creates for a target.
parents(p) == { SubSeq(p, 1, k) : k \in 1..(Len(p) - 1) }

\* Where TarFile.extractall(path) puts a member under a filter: the joined
\* path as the file system resolves it; the data filter first strips a
\* leading "/".
tar_target(path, name, filter) ==
    IF filter = "data"
    THEN normpath(path \o SelectSeq(name, LAMBDA c : c # "/"))
    ELSE normpath(join(path, name))

\* Variant of zip_target that joins the entry's name as it is.
zip_target_Unsanitised(path, name) == normpath(join(path, name))

\* Where ZipFile.extractall(path) puts an entry: the root, "." and ".." are
\* removed from its name before it is joined to path.
zip_target(path, name) ==
    path \o SelectSeq(name, LAMBDA c : c \notin {"/", ".", ".."})

\* p lies in directory or below it, name by name.
Inside(directory, p) ==
    Len(p) >= Len(directory) /\ SubSeq(p, 1, Len(directory)) = directory

\* Variant of get_subdirectories that reports a subdirectory only when it is
\* the single entry of the folder.
get_subdirectories_SingleEntry(fs, folder_path) ==
    LET entries == { p \in fs.dirs \cup fs.files :
                        Len(p) = Len(folder_path) + 1 /\ Inside(folder_path, p) }
    IN IF Cardinality(entries) = 1
       THEN { p[Len(p)] : p \in { q \in entries :
                  q \in fs.dirs /\ ~startswith_dot(q[Len(q)]) } }
       ELSE {}

\* get_subdirectories(folder_path): the entries of the folder that are
\* directories and whose name does not start with '.'.
get_subdirectories(fs, folder_path) ==
    { p[Len(p)] : p \in { q \in fs.dirs :
          /\ Len(q) = Len(folder_path) + 1
          /\ Inside(folder_path, q)
          /\ ~startswith_dot(q[Len(q)]) } }

RECURSIVE get_extracted_path(_, _)

\* Variant of get_extracted_path that descends one level only.
get_extracted_path_Once(fs, folder_path) ==
    LET subdirectories == get_subdirectories(fs, folder_path)
    IN IF subdirectories = {} THEN {folder_path}
       ELSE { Append(folder_path, s) : s \in subdirectories }

\* get_extracted_path(folder_path): the paths it can return. os.scandir()
\* yields the entries in arbitrary order, so subdirectories[0] is any of
\* the subdirectories.
get_extracted_path(fs, folder_path) ==
    LET subdirectories == get_subdirectories(fs, folder_path)
    IN IF subdirectories = {} THEN {folder_path}
       ELSE UNION { get_extracted_path(fs, Append(folder_path, s)) :
                       s \in subdirectories }

\* What the directory of src_file can hold besides src_file when
\* uncompress_file() is called: nothing, or a directory with a file in it
\* (a path submission names any file of the host).
PreExisting == { {}, {<<"/", "d", "p", "g">>} }

\* The state in which uncompress_file(src_file) is called; pre are the
\* files already there.
StageStart(kind, filter, members, pre) ==
    LET dirs == {<<"/">>, src_path} \cup UNION { parents(f) : f \in pre }
                   \cup (IF kind = "dir" THEN {src_file} ELSE {})
    IN [pc |-> "start", kind |-> kind, filter |-> filter, members |-> members,
        next |-> 0,
        dirs |-> dirs,
        files |-> pre \cup (IF kind \in {"tar", "zip", "plain"} THEN {src_file} ELSE {}),
        before |-> dirs,
        written |-> {}, result |-> Null, error |-> ""]

\* The variables staging leaves alone.
ticketing == <<outputDir, nextTicket, reqs, queue, jobs, tickets, files, accountLog, lastGet, health>>

StageInit ==
    /\ outputDir = <<"/", "srv", "out">>
    /\ nextTicket = 0
    /\ reqs = [r \in Reqs |-> NewReq]
    /\ queue = <<>>
    /\ jobs = EmptyFn
    /\ tickets = EmptyFn
    /\ files = EmptyFn
    /\ accountLog = EmptyBag
    /\ lastGet = NoAnswer
    /\ health = HealthIdle
    /\ \E pre \in PreExisting :
          \/ \E kind \in Kinds \ {"tar", "zip"} :
                 stage = StageStart(kind, "none", <<>>, pre)
          \/ \E members \in Archives :
                 \/ stage = StageStart("zip", "none", members, pre)
                 \/ \E filter \in TarFilters :
                        stage = StageStart("tar", filter, members, pre)

\* src_file is a directory, or a regular file that is neither a tar nor a
\* zip archive: return src_file.
ReturnSrcFile ==
    /\ stage.pc = "start"
    /\ src_file \in stage.dirs \/ (src_file \in stage.files /\ stage.kind = "plain")
    /\ stage' = [stage EXCEPT !.pc = "done", !.result = Some(src_file)]
    /\ UNCHANGED ticketing

\* src_file does not exist: tarfile.is_tarfile() raises FileNotFoundError,
\* abort(400, 'File not found').
AbortFileNotFound ==
    /\ stage.pc = "start"
    /\ src_file \notin stage.dirs \cup stage.files
    /\ stage' = [stage EXCEPT !.pc = "aborted", !.error = FILE_NOT_FOUND_MESSAGE]
    /\ UNCHANGED ticketing

\* tarfile.is_tarfile(src_file): open the archive and call safe_extract.
OpenTar ==
    /\ stage.pc = "start"
    /\ src_file \in stage.files /\ stage.kind = "tar"
    /\ stage' = [stage EXCEPT !.pc = "safe_extract"]
    /\ UNCHANGED ticketing

\* Variant of SafeExtractCheck that extracts each member right after it
\* has checked it, so that the members before the first one it rejects are
\* on disk when it raises.
SafeExtractCheck_Interleaved ==
    /\ stage.pc = "safe_extract"
    /\ LET bad == { i \in 1..Len(stage.members) :
                      ~is_within_directory(src_path, join(src_path, stage.members[i])) }
       IN IF bad # {}
          THEN LET first == CHOOSE i \in bad : \A j \in bad : i <= j
                   targets == { tar_target(src_path, stage.members[k], stage.filter) :
                                   k \in 1..(first - 1) }
               IN stage' = [stage EXCEPT !.pc = "raised",
                               !.error = "Attempted Path Traversal in Tar File",
                               !.dirs = @ \cup UNION { parents(x) : x \in targets },
                               !.files = @ \cup targets,
                               !.written = @ \cup targets]
          ELSE stage' = [stage EXCEPT !.pc = "tar_extractall", !.next = 1]
    /\ UNCHANGED ticketing

\* The loop of safe_extract over tar.getmembers(): raise when a member is
\* not within the directory, before anything is extracted.
SafeExtractCheck ==
    /\ stage.pc = "safe_extract"
    /\ IF \E i \in 1..Len(stage.members) :
              ~is_within_directory(src_path, join(src_path, stage.members[i]))
       THEN stage' = [stage EXCEPT !.pc = "raised",
                         !.error = "Attempted Path Traversal in Tar File"]
       ELSE stage' = [stage EXCEPT !.pc = "tar_extractall", !.next = 1]
    /\ UNCHANGED ticketing

\* tar.extractall(path, ...), one member: under the data filter a member
\* whose target is outside the destination raises; otherwise the member is
\* written at its target.
TarExtractMember ==
    /\ stage.pc = "tar_extractall"
    /\ stage.next <= Len(stage.members)
    /\ LET target == tar_target(src_path, stage.members[stage.next], stage.filter)
       IN IF stage.filter = "data" /\ ~Inside(src_path, target)
          THEN stage' = [stage EXCEPT !.pc = "raised", !.error = "OutsideDestinationError"]
          ELSE stage' = [stage EXCEPT !.next = @ + 1,
                            !.dirs = @ \cup parents(target),
                            !.files = @ \cup {target},
                            !.written = @ \cup {target}]
    /\ UNCHANGED ticketing

\* zipfile.is_zipfile(src_file): open the archive and call extractall.
OpenZip ==
    /\ stage.pc = "start"
    /\ src_file \in stage.files /\ stage.kind = "zip"
    /\ stage' = [stage EXCEPT !.pc = "zip_extractall", !.next = 1]
    /\ UNCHANGED ticketing

\* handle.extractall(src_path), one entry.
ZipExtractMember ==
    /\ stage.pc = "zip_extractall"
    /\ stage.next <= Len(stage.members)
    /\ LET target == zip_target(src_path, stage.members[stage.next])
       IN stage' = [stage EXCEPT !.next = @ + 1,
                        !.dirs = @ \cup parents(target),
                        !.files = @ \cup {target},
                        !.written = @ \cup {target}]
    /\ UNCHANGED ticketing

\* extracted_path = get_extracted_path(src_path); return extracted_path
Locate ==
    /\ stage.pc \in {"tar_extractall", "zip_extractall"}
    /\ stage.next > Len(stage.members)
    /\ \E extracted_path \in get_extracted_path([dirs |-> stage.dirs, files |-> stage.files], src_path) :
           stage' = [stage EXCEPT !.pc = "done", !.result = Some(extracted_path)]
    /\ UNCHANGED ticketing

StageNext ==
    \/ ReturnSrcFile
    \/ AbortFileNotFound
    \/ OpenTar
    \/ SafeExtractCheck
    \/ TarExtractMember
    \/ OpenZip
    \/ ZipExtractMember
    \/ Locate

StageSpec == StageInit /\ [][StageNext]_vars

\* ------------------------------------------------------------ vocabulary
\* The ticket was handed out in a 202 response.
Issued(t) == \E r \in Reqs : reqs[r].code = 202 /\ reqs[r].issued = Some(t)

HasRow(t) == t \in DOMAIN tickets
Pending(t) == HasRow(t) /\ tickets[t].status = 0
Completed(t) == HasRow(t) /\ tickets[t].status = 1

\* The delegated computation of job t has returned / has raised.
JobReturned(t) ==
    t \in DOMAIN jobs /\ jobs[t].future # <<>> /\ ~IsNull(jobs[t].future[2])
JobRaised(t) ==
    t \in DOMAIN jobs /\ jobs[t].future # <<>> /\ IsNull(jobs[t].future[2])

\* The completion callback of job t has ended, normally or by an exception.
CallbackOver(t) == t \in DOMAIN jobs /\ jobs[t].pc \in {"done", "cb_raised"}

\* The callback of job t ended because the artifact could not be written.
PersistFailed(t) ==
    t \in DOMAIN jobs /\ jobs[t].pc = "cb_raised" /\ CanUnpack(jobs[t].future)

\* The artifact of job t is where the callback wrote it.
ArtifactInPlace(t) ==
    /\ t \in DOMAIN jobs
    /\ ~IsNull(jobs[t].filepath)
    /\ abspath(artifact_path(outputDir, now, t)) \in DOMAIN files

\* ------------------------------------------------------------ claims

\* C1: under fair scheduling of the pool, every deferred submission answered
\* 202 eventually has its row completed, whether the computation returns or
\* raises (leaving aside a job whose artifact could not be written).
C1_AcceptedEventuallyCompleted ==
    \A t \in AllTickets : Issued(t) ~> (Completed(t) \/ PersistFailed(t))

\* C2: once the callback of a job whose computation raised is over, the row
\* is completed with success false, the exception text as comment and no
\* result, and GET /status shows it.
C2_FailureRecorded ==
    \A t \in AllTickets :
        (JobRaised(t) /\ CallbackOver(t)) =>
            /\ HasRow(t)
            /\ tickets[t].status = 1
            /\ tickets[t].success = Some(0)
            /\ tickets[t].comment = Some(str_e(jobs[t].src))
            /\ IsNull(tickets[t].result)
            /\ status(tickets, t).completed = Some(TRUE)
            /\ status(tickets, t).success = Some(FALSE)

\* C3: the row of a ticket exists from the moment its 202 response is
\* returned, so a status lookup for an issued ticket never answers 404.
C3_IssuedTicketHasRow ==
    \A t \in AllTickets : Issued(t) => (HasRow(t) /\ status(tickets, t).code # 404)

\* C4: a completed row never changes again: status stays completed and
\* success, result, execution_time and comment keep their values in every
\* later step.
C4_CompletedRowFrozen ==
    [][\A t \in AllTickets :
          Completed(t) => (t \in DOMAIN tickets' /\ tickets'[t] = tickets[t])]_vars

\* C4 witness: a row was completed and another job's callback has updated
\* the table after it.
C4_Witness ==
    \E t, u \in AllTickets : t # u /\ Completed(t) /\ Completed(u)

\* C5: success is NULL exactly when status is pending.
C5_SuccessUnknownIffPending ==
    \A t \in DOMAIN tickets : IsNull(tickets[t].success) <=> tickets[t].status = 0

\* C5 witness: a completed row with success set next to a pending row.
C5_Witness ==
    \E t, u \in AllTickets :
        /\ Completed(t) /\ ~IsNull(tickets[t].success)
        /\ Pending(u) /\ IsNull(tickets[u].success)

\* C6: a row has a result path exactly when its success is true.
C6_ResultIffSuccess ==
    \A t \in DOMAIN tickets : ~IsNull(tickets[t].result) <=> tickets[t].success = Some(1)

\* C6 witness: a job returned a result and its row records success and the
\* path, while the row of another job has neither.
C6_Witness ==
    \E t, u \in AllTickets :
        /\ JobReturned(t) /\ Completed(t)
        /\ tickets[t].success = Some(1) /\ ~IsNull(tickets[t].result)
        /\ HasRow(u) /\ IsNull(tickets[u].result) /\ tickets[u].success # Some(1)

\* C7: GET /resource for a ticket without a row answers 404.
C7_AbsentTicketIs404 ==
    [][\A t \in AllTickets : (GetResource(t) /\ ~HasRow(t)) => lastGet'.code = 404]_vars

\* C8: GET /resource answers 404 for every ticket whose row has no result
\* path.
C8_NullResultIs404 ==
    [][\A t \in AllTickets :
          (GetResource(t) /\ HasRow(t) /\ IsNull(tickets[t].result))
              => lastGet'.code = 404]_vars

\* C8 witness: the lookup for a ticket whose row has no result path has
\* answered 404.
C8_Witness ==
    /\ lastGet.endpoint = "resource"
    /\ lastGet.code = 404
    /\ HasRow(lastGet.ticket)
    /\ IsNull(tickets[lastGet.ticket].result)

\* C9: GET /resource answers 507 whenever the row records a result path and
\* no file exists at that path.
C9_MissingArtifactIs507 ==
    [][\A t \in AllTickets :
          (/\ GetResource(t)
           /\ HasRow(t)
           /\ ~IsNull(tickets[t].result)
           /\ abspath(Val(tickets[t].result)) \notin DOMAIN files)
              => lastGet'.code = 507]_vars

\* C9 witness: the artifact of a completed ticket was removed and the
\* lookup has answered 507.
C9_Witness ==
    /\ lastGet.endpoint = "resource"
    /\ lastGet.code = 507
    /\ HasRow(lastGet.ticket)
    /\ ~IsNull(tickets[lastGet.ticket].result)
    /\ abspath(Val(tickets[lastGet.ticket].result)) \notin DOMAIN files

\* C10: for a ticket completed with success true whose artifact is still
\* where the callback wrote it, GET /resource returns the result the job
\* produced.
C10_ResourceRoundTrip ==
    [][\A t \in AllTickets :
          (/\ GetResource(t)
           /\ Completed(t)
           /\ tickets[t].success = Some(1)
           /\ ArtifactInPlace(t))
              => (/\ lastGet'.code = 200
                  /\ lastGet'.content = jobs[t].future[2])]_vars

\* C11: GET /status answers 404 exactly when the ticket has no row, and
\* otherwise 200 with completed, success, requested, execution_time and
\* comment taken from the row.
C11_StatusFromRow ==
    [][\A t \in AllTickets :
          GetStatus(t) =>
             /\ lastGet'.code = 404 <=> ~HasRow(t)
             /\ HasRow(t) =>
                  /\ lastGet'.code = 200
                  /\ lastGet'.completed = Some(tickets[t].status = 1)
                  /\ lastGet'.success =
                        (IF IsNull(tickets[t].success) THEN Null
                         ELSE Some(tickets[t].success = Some(1)))
                  /\ lastGet'.requested = Some(tickets[t].requested_time)
                  /\ lastGet'.execution_time = tickets[t].execution_time
                  /\ lastGet'.comment = tickets[t].comment]_vars

\* C11 witness: the lookups have answered 200 for a completed row, with the
\* row's values, while another ticket still has no row.
C11_Witness ==
    /\ lastGet.endpoint = "status"
    /\ lastGet.code = 200
    /\ Completed(lastGet.ticket)
    /\ lastGet.completed = Some(TRUE)
    /\ lastGet.execution_time = tickets[lastGet.ticket].execution_time
    /\ \E u \in AllTickets : ~HasRow(u)

\* C16: in prompt and in deferred execution an exception of the delegated
\* computation is converted to a failure outcome with a description and
\* never leaves the job run: no handler ends with the exception (500), and
\* the future of a job that raised carries the description.
C16_ExceptionNeverPropagates ==
    /\ \A r \in Reqs : reqs[r].code # 500
    /\ \A t \in AllTickets :
          JobRaised(t) => ~IsNull(jobs[t].future[Len(jobs[t].future)])

\* C17: a path submission answered 400 "File not found" has generated no
\* ticket, created no row and submitted no job.
C17_MissingPathNoEffect ==
    [][\A r \in Reqs :
          (/\ reqs[r].pc = "new"
           /\ reqs'[r].code = 400
           /\ reqs'[r].message = FILE_NOT_FOUND_MESSAGE)
              => /\ reqs'[r].pc = "done"
                 /\ IsNull(reqs'[r].ticket)
                 /\ UNCHANGED <<nextTicket, tickets, queue, jobs, files>>]_vars

\* C17 witness: a path submission was answered 400 "File not found" while a
\* job of another request is in the pool.
C17_Witness ==
    \E r \in Reqs :
        /\ reqs[r].code = 400
        /\ reqs[r].message = FILE_NOT_FOUND_MESSAGE
        /\ DOMAIN jobs # {}

\* C18: a submission whose form does not validate is answered 400 and
\* nothing else happens: no ticket, no file, no row, no job.
C18_InvalidFormNoEffect ==
    [][\A r \in Reqs :
          (/\ reqs[r].pc = "new"
           /\ reqs'[r].code = 400
           /\ reqs'[r].message = "form.errors")
              => /\ reqs'[r].pc = "done"
                 /\ IsNull(reqs'[r].ticket)
                 /\ UNCHANGED <<nextTicket, tickets, queue, jobs, files, accountLog>>]_vars

\* C18 witness: an invalid form was answered 400 while a job of another
\* request is in the pool.
C18_Witness ==
    \E r \in Reqs :
        /\ reqs[r].code = 400
        /\ reqs[r].message = "form.errors"
        /\ DOMAIN jobs # {}

\* Job t takes a step (of enqueue() or of its callback).
JobStep(t) == t \in DOMAIN jobs /\ t \in DOMAIN jobs' /\ jobs'[t] # jobs[t]

\* C19: a step of job t writes no row but the row of t and no file but one
\* whose path contains t; so two jobs never write the same row or path.
C19_JobsWriteOnlyTheirOwn ==
    [][\A t \in AllTickets :
          JobStep(t) =>
             /\ \A u \in DOMAIN tickets' :
                   u # t => (u \in DOMAIN tickets /\ tickets'[u] = tickets[u])
             /\ \A p \in DOMAIN files' :
                   (p \notin DOMAIN files \/ files'[p] # files[p])
                       => \E i \in 1..Len(p) : p[i] = t
             /\ \A u \in DOMAIN jobs' :
                   (u # t /\ ~IsNull(jobs'[t].filepath))
                       => jobs'[u].filepath # jobs'[t].filepath]_vars

\* C19 witness: two jobs are in their callbacks at once, each having
\* written its artifact.
C19_Witness ==
    \E t, u \in AllTickets :
        /\ t # u
        /\ t \in DOMAIN jobs /\ u \in DOMAIN jobs
        /\ jobs[t].pc = "cb_db" /\ jobs[u].pc = "cb_db"
        /\ ~IsNull(jobs[t].filepath) /\ ~IsNull(jobs[u].filepath)

\* C20: a handler that has submitted its job can return its 202 response
\* whatever the state of the job, and the ticket in the response is the
\* ticket the job was submitted with.
C20_ResponseDoesNotWait ==
    \A r \in Reqs :
        /\ reqs[r].pc = "submitted" => ENABLED Respond202(r)
        /\ reqs[r].code = 202 =>
              /\ reqs[r].issued = reqs[r].ticket
              /\ Val(reqs[r].issued) \in DOMAIN jobs

\* C20 witness: the 202 response was returned while the job is still
\* queued.
C20_Witness ==
    \E r \in Reqs :
        /\ reqs[r].code = 202
        /\ jobs[Val(reqs[r].issued)].pc = "queued"

\* The number of accounting records emitted for ticket t.
RecordCount(t) ==
    LET S == { rec \in BagToSet(accountLog) : rec.ticket = t }
    IN BagCardinality([rec \in S |-> CopiesIn(rec, accountLog)])

\* C22: once the callback of a deferred job is over, the computation having
\* returned or raised (a failure to write the artifact left aside), exactly
\* one accounting record exists for its ticket; a record is never emitted
\* twice, and never before the row is completed.
C22_OneRecordPerFinishedJob ==
    \A t \in DOMAIN jobs :
        /\ (CallbackOver(t) /\ ~PersistFailed(t)) => RecordCount(t) = 1
        /\ RecordCount(t) <= 1
        /\ RecordCount(t) = 1 => Completed(t)

\* C23: the row of a job is in the table from the moment the computation
\* can be invoked, so it is there when the callback reads requested_time
\* and filesize.
C23_RowBeforeComputation ==
    \A t \in DOMAIN jobs :
        /\ jobs[t].pc # "queued" => HasRow(t)
        /\ jobs[t].pc \in {"cb_db", "cb_log"} =>
              (HasRow(jobs[t].future[1]) /\ ~IsNull(tickets[jobs[t].future[1]].filesize))

\* C23 witness: a callback is about to read the row of its ticket, which is
\* there and still pending, while another job has not yet started.
C23_Witness ==
    \E t, u \in DOMAIN jobs :
        /\ jobs[t].pc = "cb_db" /\ Pending(t)
        /\ jobs[u].pc = "queued" /\ ~HasRow(u)

\* C24: the callback has written the artifact when it goes on to the row
\* update, and a resource lookup for a row completed with success whose
\* artifact nobody removed never answers 507.
C24_CompletedNever507 ==
    [][\A t \in DOMAIN jobs :
          /\ (jobs[t].pc = "finished" /\ jobs'[t].pc = "cb_db" /\ ~IsNull(jobs'[t].filepath))
                => (Pending(t) /\ abspath(artifact_path(outputDir, now, t)) \in DOMAIN files')
          /\ (/\ GetResource(t)
              /\ Completed(t)
              /\ ~IsNull(tickets[t].result)
              /\ ArtifactInPlace(t))
                => lastGet'.code # 507]_vars

\* C25: the result field of a row is either null or the path of the
\* artifact relative to the output directory: date partition, ticket, file
\* name.
C25_ResultIsRelative ==
    \A t \in DOMAIN tickets :
        ~IsNull(tickets[t].result) =>
            /\ ~isabs(Val(tickets[t].result))
            /\ Val(tickets[t].result) = <<strftime(now), t, "result.json">>

\* C27: when the callback of a job whose computation returned a result
\* ended on the write of the artifact, the row is pending and no accounting
\* record exists for the ticket.
C27_PersistFailureLeavesPending ==
    \A t \in DOMAIN jobs :
        (PersistFailed(t) /\ JobReturned(t))
            => (Pending(t) /\ RecordCount(t) = 0 /\ IsNull(tickets[t].result))

\* C27 witness: the callback of one job has failed on the write while
\* another job was completed and accounted for.
C27_Witness ==
    \E t, u \in DOMAIN jobs :
        /\ PersistFailed(t) /\ JobReturned(t) /\ Pending(t)
        /\ jobs[u].pc = "done" /\ Completed(u) /\ RecordCount(u) = 1

\* C28: a request answered 200 carries the computation's result, and the
\* step that answers it leaves the tickets table, the output files and the
\* pool (queue and jobs) unchanged.
C28_PromptLeavesNoTrace ==
    [][\A r \in Reqs :
          (reqs[r].pc = "new" /\ reqs'[r].code = 200)
              => /\ reqs'[r].pc = "done"
                 /\ reqs'[r].body = Some(kmeams(src_file_path(r)))
                 /\ UNCHANGED <<tickets, files, queue, jobs, accountLog>>]_vars

\* C28 witness: a prompt request of the file kind was answered 200; its
\* ticket has neither row nor job, while a deferred job has its row.
C28_Witness ==
    \E r \in Reqs :
        /\ reqs[r].code = 200
        /\ ~IsNull(reqs[r].body)
        /\ ~IsNull(reqs[r].ticket)
        /\ Val(reqs[r].ticket) \notin DOMAIN tickets \cup DOMAIN jobs
        /\ DOMAIN tickets # {}

\* ---------------------------------------------------------------------
\* GET /_health
\* ---------------------------------------------------------------------

\* Values of the environment variable TEMPDIR: unset, empty, a directory.
TempDirValues == { Null, Some(<<>>), Some(<<"/", "scratch">>) }

\* The directories a temp directory can be.
TempDirs == { gettempdir, <<"/", "scratch">> }

\* What dbc.execute('SELECT 1') can raise.
DbErrors == { "unable to open database file", "database is locked" }

\* get_temp_dir(): getenv('TEMPDIR') or gettempdir()
get_temp_dir(TEMPDIR) ==
    IF IsNull(TEMPDIR) \/ Val(TEMPDIR) = <<>> THEN gettempdir ELSE Val(TEMPDIR)

\* check_directory_writable(d): the exception of mkstemp, if any.
check_directory_writable(writable, d) ==
    IF d \in writable THEN Null ELSE Some("Permission denied: " \o d[Len(d)])

\* Variant of health_check that tries the database first.
health_check_DbFirst(tmp_exc, db_exc) ==
    IF ~IsNull(db_exc)
    THEN [code |-> 200, status |-> "FAILED",
          reason |-> "cannot connect to SQLite backend", detail |-> Val(db_exc)]
    ELSE IF ~IsNull(tmp_exc)
         THEN [code |-> 200, status |-> "FAILED",
               reason |-> "temp directory not writable", detail |-> Val(tmp_exc)]
         ELSE [code |-> 200, status |-> "OK", reason |-> "", detail |-> ""]

\* health_check(): the response, given what the two checks raise.
health_check(tmp_exc, db_exc) ==
    IF ~IsNull(tmp_exc)
    THEN [code |-> 200, status |-> "FAILED",
          reason |-> "temp directory not writable", detail |-> Val(tmp_exc)]
    ELSE IF ~IsNull(db_exc)
         THEN [code |-> 200, status |-> "FAILED",
               reason |-> "cannot connect to SQLite backend", detail |-> Val(db_exc)]
         ELSE [code |-> 200, status |-> "OK", reason |-> "", detail |-> ""]

\* Everything but health.
serving == <<outputDir, nextTicket, reqs, queue, jobs, tickets, files, accountLog, lastGet, stage>>

HealthInit ==
    /\ outputDir = <<"/", "srv", "out">>
    /\ nextTicket = 0
    /\ reqs = [r \in Reqs |-> NewReq]
    /\ queue = <<>>
    /\ jobs = EmptyFn
    /\ tickets = EmptyFn
    /\ files = EmptyFn
    /\ accountLog = EmptyBag
    /\ lastGet = NoAnswer
    /\ stage = StageIdle
    /\ \E T \in TempDirValues :
           health = [HealthIdle EXCEPT !.TEMPDIR = T, !.writable = TempDirs]

\* GET /_health
GetHealth ==
    /\ health' = [health EXCEPT !.answer =
           health_check(check_directory_writable(health.writable,
                                                 get_temp_dir(health.TEMPDIR)),
                        health.db_exc)]
    /\ UNCHANGED serving

\* The permissions of a directory change, or it fills up or empties.
ChangeTempDir(d) ==
    /\ health' = [health EXCEPT !.writable =
                      IF d \in @ THEN @ \ {d} ELSE @ \cup {d}]
    /\ UNCHANGED serving

\* The database becomes unreachable, or reachable again.
ChangeDb(e) ==
    /\ health.db_exc # e
    /\ health' = [health EXCEPT !.db_exc = e]
    /\ UNCHANGED serving

HealthNext ==
    \/ GetHealth
    \/ \E d \in TempDirs : ChangeTempDir(d)
    \/ \E e \in {Null} \cup { Some(x) : x \in DbErrors } : ChangeDb(e)

HealthSpec == HealthInit /\ [][HealthNext]_vars

\* The temp directory is writable / the store is reachable.
TempWritable == get_temp_dir(health.TEMPDIR) \in health.writable
StoreReachable == IsNull(health.db_exc)

\* C21: GET /_health always answers 200; the status is OK exactly when the
\* temp directory is writable and the store is reachable, otherwise FAILED
\* with a reason, and the temp directory's reason wins when both fail.
C21_HealthAlways200 ==
    [][GetHealth =>
          /\ health'.answer.code = 200
          /\ health'.answer.status = "OK" <=> (TempWritable /\ StoreReachable)
          /\ health'.answer.status # "OK" =>
                /\ health'.answer.status = "FAILED"
                /\ health'.answer.reason # ""
                /\ ~TempWritable =>
                      health'.answer.reason = "temp directory not writable"
                /\ (TempWritable /\ ~StoreReachable) =>
                      health'.answer.reason = "cannot connect to SQLite backend"]_vars

\* C21 witness: /_health answered FAILED for the temp directory while both
\* checks fail.
C21_Witness ==
    /\ ~TempWritable /\ ~StoreReachable
    /\ health.answer.code = 200
    /\ health.answer.status = "FAILED"
    /\ health.answer.reason = "temp directory not writable"

\* ---- Staging vocabulary ----

\* src_file was an archive and has been unpacked and located.
Unpacked == stage.kind \in {"tar", "zip"} /\ stage.pc = "done"

\* The member's path, joined to the extraction directory and normalized,
\* lies outside the extraction directory.
Escapes(name) == ~Inside(src_path, normpath(join(src_path, name)))

HasEscapingMember == \E i \in 1..Len(stage.members) : Escapes(stage.members[i])

\* Everything extraction has written lies in the extraction directory.
WrittenInside == \A p \in stage.written : Inside(src_path, p)

\* The directories and the regular files a folder holds, hidden ones
\* included.
AllSubdirs(folder) ==
    { q \in stage.dirs : Len(q) = Len(folder) + 1 /\ Inside(folder, q) }

FilesIn(folder) ==
    { q \in stage.files : Len(q) = Len(folder) + 1 /\ Inside(folder, q) }

VisibleSubdirs(folder) ==
    { q \in AllSubdirs(folder) : ~startswith_dot(q[Len(q)]) }

\* The end of the chain of single subdirectories that starts at folder.
RECURSIVE Innermost(_)
Innermost(folder) ==
    IF Cardinality(AllSubdirs(folder)) = 1
    THEN Innermost(CHOOSE q \in AllSubdirs(folder) : TRUE)
    ELSE folder

\* Below folder lies a chain of directories each holding exactly one
\* subdirectory and nothing else (but the archive, at the top), down to a
\* directory that holds files and no subdirectory.
RECURSIVE IsChainFrom(_)
IsChainFrom(folder) ==
    IF AllSubdirs(folder) = {}
    THEN FilesIn(folder) # {} /\ folder # src_path
    ELSE /\ Cardinality(AllSubdirs(folder)) = 1
         /\ FilesIn(folder) \subseteq {src_file}
         /\ IsChainFrom(CHOOSE q \in AllSubdirs(folder) : TRUE)

\* No directory of the chain below the extraction directory is hidden.
VisibleChain ==
    LET inner == Innermost(src_path)
    IN \A k \in (Len(src_path) + 1)..Len(inner) : ~startswith_dot(inner[k])

\* C12: a tar archive with a member whose joined and normalized path lies
\* outside the extraction directory is never extracted to the end, and
\* nothing is written outside the extraction directory.
C12_TarTraversalAborts ==
    (stage.kind = "tar" /\ HasEscapingMember)
        => (stage.pc # "done" /\ WrittenInside)

\* C13 as stated: a zip archive with an entry whose resolved path escapes
\* the extraction directory makes extraction abort.
C13_ZipTraversalAborts ==
    (stage.kind = "zip" /\ HasEscapingMember) => stage.pc # "done"

\* C13: extraction of a zip archive never aborts, also with entries whose
\* path escapes the extraction directory; every entry is written, and
\* written inside the extraction directory.
C13_ZipStaysInside ==
    stage.kind = "zip" =>
        /\ stage.pc \notin {"raised", "aborted"}
        /\ WrittenInside
        /\ stage.pc = "done" => stage.written # {}

\* C13 witness: a zip archive with an escaping entry has been unpacked.
C13_Witness ==
    /\ Unpacked
    /\ stage.kind = "zip"
    /\ HasEscapingMember
    /\ stage.written # {}

\* C14 as stated: for a chain of nested directories each holding exactly
\* one subdirectory, staging returns the innermost directory.
C14_ChainResolvesToInnermost ==
    (Unpacked /\ IsChainFrom(src_path))
        => stage.result = Some(Innermost(src_path))

\* C14: for a chain of nested directories each holding exactly one
\* subdirectory, none of them with a name starting with '.', staging
\* returns the innermost directory.
C14_VisibleChainResolvesToInnermost ==
    (Unpacked /\ IsChainFrom(src_path) /\ VisibleChain)
        => stage.result = Some(Innermost(src_path))

\* C14 witness: archive -> dir -> dir -> file was unpacked and the
\* directory two levels down was returned.
C14_Witness ==
    /\ Unpacked
    /\ IsChainFrom(src_path) /\ VisibleChain
    /\ Len(Innermost(src_path)) = Len(src_path) + 2
    /\ stage.result = Some(Innermost(src_path))

\* C15 as stated: unwrapping descends from a directory only when a
\* subdirectory is that directory's single entry.
C15_DescendsOnlyThroughSingleEntry ==
    Unpacked =>
        LET res == Val(stage.result)
        IN \A k \in Len(src_path)..(Len(res) - 1) :
              LET folder == SubSeq(res, 1, k)
              IN Cardinality(AllSubdirs(folder) \cup FilesIn(folder)) = 1

\* C15: unwrapping descends as long as the directory has a subdirectory
\* whose name does not start with '.', whatever lies next to it: the
\* directory returned has no such subdirectory and is reached from the
\* extraction directory through such subdirectories only.
C15_DescendsWhileVisibleSubdirectory ==
    Unpacked =>
        LET res == Val(stage.result)
        IN /\ Inside(src_path, res)
           /\ res \in stage.dirs
           /\ VisibleSubdirs(res) = {}
           /\ \A k \in (Len(src_path) + 1)..Len(res) : ~startswith_dot(res[k])

\* C15 witness: the extraction directory holds the archive and two
\* subdirectories, and one of the subdirectories was returned.
C15_Witness ==
    /\ Unpacked
    /\ src_file \in FilesIn(src_path)
    /\ Cardinality(VisibleSubdirs(src_path)) = 2
    /\ stage.result # Some(src_path)

\* C26: the entries of an unpacked archive do not land in the directory
\* that holds the archive, and the directory returned holds entries of the
\* archive and is not one that was there, next to the archive, before.
C26_ExtractedApartFromArchive ==
    Unpacked =>
        /\ \A p \in stage.written : dirname(p) # src_path
        /\ Val(stage.result) \notin { q \in stage.before : dirname(q) = src_path }
        /\ \E p \in stage.written : Inside(Val(stage.result), p)

\* C29: when the guard of safe_extract rejects a tar archive, no member of
\* the archive has been written, the members listed before the rejected
\* one included.
C29_GuardRejectsBeforeAnyWrite ==
    stage.error = "Attempted Path Traversal in Tar File" =>
        /\ stage.pc = "raised"
        /\ stage.written = {}
        /\ stage.dirs = stage.before
        /\ IsNull(stage.result)

\* C29 witness: the guard has rejected an archive whose first member is
\* harmless and whose second member escapes.
C29_Witness ==
    /\ stage.error = "Attempted Path Traversal in Tar File"
    /\ Len(stage.members) >= 2
    /\ ~Escapes(stage.members[1])
    /\ Escapes(stage.members[2])
    /\ stage.written = {}

====
